---- MODULE Spec2Model ----
(***************************************************************************)
(* SatvikScan AI: the asynchronous food-validation pipeline.               *)
(*                                                                         *)
(*   HTTP gateway (POST /validate-food, GET /task-status/:taskId)          *)
(*     -> Bull queue "food-validation" kept in Redis                       *)
(*     -> worker process (foodValidationQueue.process)                     *)
(*     -> processFoodValidation (the classification adapter).              *)
(*                                                                         *)
(* The Redis structures of the queue are the state: the id counter, the    *)
(* job hashes, the wait and active lists and the completed, failed and     *)
(* delayed sorted sets.  Every await in a handler is an interleaving       *)
(* point, so GET /task-status is modelled by one action per await.         *)
(***************************************************************************)
EXTENDS Integers, Sequences, FiniteSets, TLC

\* ---------------------------------------------------------------- bounds

\* Jobs enqueued in one run.
MaxJobs == 2

\* Cap on the retention count used by the model, so that eviction of old
\* completed jobs happens within MaxJobs jobs.
MaxKeep == 1

\* ------------------------------------------------------ program constants

\* attempts given by POST /validate-food ("Retry up to 3 times"); the same
\* number as queueConfig.attempts
attempts == 3

\* base delay of the exponential backoff, in ms
backoffDelay == 2000

\* queueConfig.removeOnComplete: a number is the count of finished jobs
\* Bull keeps in the completed set.
removeOnComplete == 86400000

\* queueConfig.removeOnFail, likewise for the failed set.
removeOnFail == 604800000

\* priority given by POST /validate-food
priority == 1

Min(a, b) == IF a <= b THEN a ELSE b

\* The retention counts as the model applies them.
KeepCompleted == Min(removeOnComplete, MaxKeep)
KeepFailed == Min(removeOnFail, MaxKeep)

\* The worker processes running src/queue/worker.ts against the queue.
Workers == {"w1", "w2"}

\* The handler slots of one worker process: foodValidationQueue.process is
\* called with a name and a handler and no concurrency, and Bull then runs
\* one job at a time.
concurrency == 1

\* queueConfig.concurrency with QUEUE_CONCURRENCY unset; no call reads it.
QUEUE_CONCURRENCY == 5

\* queueConfig.timeout, in ms; no call reads it.
timeout == 30 * 60 * 1000
Ids == 1..MaxJobs

\* A field that is absent (undefined / null in the code).
None == "none"

\* ------------------------------------------------------- sequence helpers

RECURSIVE SeqToSet(_)
SeqToSet(s) == IF s = <<>> THEN {} ELSE {Head(s)} \cup SeqToSet(Tail(s))

RECURSIVE Without(_, _)
\* the sequence s with every element of the set gone removed
Without(s, gone) ==
  IF s = <<>> THEN <<>>
  ELSE IF Head(s) \in gone THEN Without(Tail(s), gone)
       ELSE <<Head(s)>> \o Without(Tail(s), gone)

\* the last n elements of s
LastN(s, n) == IF Len(s) <= n THEN s ELSE SubSeq(s, Len(s) - n + 1, Len(s))

\* the elements of s before its last n
ButLastN(s, n) == IF Len(s) <= n THEN <<>> ELSE SubSeq(s, 1, Len(s) - n)

\* ----------------------------------------------------------- the request

\* An uploaded file part of the multipart form.  The bytes of a file are a
\* sequence of blocks of three bytes, each named by a string.
NoFile == [present |-> FALSE, type |-> "", bytes |-> <<>>]
PngFile == [present |-> TRUE, type |-> "image/png", bytes |-> <<"byt", "esA">>]

\* A file part without a content type, and one of no bytes (what a browser
\* sends for a file input left empty).
UntypedFile == [present |-> TRUE, type |-> "", bytes |-> <<"ABC">>]
EmptyFile == [present |-> TRUE, type |-> "application/octet-stream", bytes |-> <<>>]

\* The multipart forms a client posts to the running service: no image
\* field, a file, a URL, or both.
Requests ==
  [image : {NoFile, PngFile},
   imageUrl : {"", "http://img"},
   imageBase64 : {<<>>},
   foodName : {"Potato Chips"},
   ingredients : {""}]

\* The text of an imageBase64 field is a sequence of tokens; the empty
\* sequence is the empty string, which the code treats like an absent
\* field.  The tokens are: the scheme "data:", which only begins a text; the
\* text between the scheme and the first ";" (one token); the separators
\* ";" and ","; the word "base64"; a line break; and chunks, each a run of
\* four characters of the base64 alphabet that encodes a block of bytes.
NoText == <<>>

\* The base64 chunk of each block of three bytes.
Chunks == {"YWJj", "QUJD", "REVG", "Ynl0", "ZXNB"}

Blocks == {"abc", "ABC", "DEF", "byt", "esA"}

\* The base64 alphabet text of a block; any other bytes encode to a chunk
\* that is none of Chunks.
ChunkOf(block) ==
  CASE block = "abc" -> "YWJj"
    [] block = "ABC" -> "QUJD"
    [] block = "DEF" -> "REVG"
    [] block = "byt" -> "Ynl0"
    [] block = "esA" -> "ZXNB"
    [] OTHER -> "Pz8/"

\* buffer.toString('base64') of an uploaded file's bytes
toBase64(bytes) == [k \in DOMAIN bytes |-> ChunkOf(bytes[k])]

\* The tokens the base64 decoder skips: they hold no character of the
\* base64 alphabet.
Skipped == {";", ",", "\n"}

\* What the decoder makes of text in which characters of the alphabet lie
\* outside whole chunks: bytes that belong to no image.
Garbage == <<"garbage">>

\* Buffer.from(text, 'base64'): the characters outside the base64 alphabet
\* are skipped and the others are decoded four by four.
fromBase64(text) ==
  LET kept == SelectSeq(text, LAMBDA t : t \notin Skipped)
  IN IF \A k \in DOMAIN kept : kept[k] \in Chunks
       THEN [k \in DOMAIN kept |-> CHOOSE b \in Blocks : ChunkOf(b) = kept[k]]
       ELSE Garbage

\* The texts a client puts in the imageBase64 field: none, raw base64, data
\* URLs, a data URL with a parameter, one whose data has a line break, and
\* one without a media type.
Texts ==
  {NoText,
   <<"QUJD">>,
   <<"QUJD", "REVG">>,
   <<"data:", "image/png", ";", "base64", ",", "YWJj">>,
   <<"data:", "image/webp", ";", "base64", ",", "QUJD", "REVG">>,
   <<"data:", "image/png", ";", "charset=utf-8", ";", "base64", ",", "YWJj">>,
   <<"data:", "image/png", ";", "base64", ",", "QUJD", "\n", "REVG">>,
   <<"data:", ";", "base64", ",", "YWJj">>}

\* The forms whose image fields are followed from the request to the
\* external call.
Forms ==
  [image : {NoFile, PngFile, UntypedFile, EmptyFile},
   imageUrl : {"", "http://img"},
   imageBase64 : Texts,
   foodName : {"", "Potato Chips"},
   ingredients : {"", "potato, salt"}]

\* Variant of NoImage with the negation of the third test lost.
NoImage_lostNegation(req) ==
  /\ ~req.image.present
  /\ req.imageUrl = ""
  /\ req.imageBase64 # NoText

\* !imageFile && !imageUrl && !imageBase64
NoImage(req) ==
  /\ ~req.image.present
  /\ req.imageUrl = ""
  /\ req.imageBase64 = NoText

\* The FoodValidationTask built by POST /validate-food.
taskData(req) ==
  LET base == [foodName |-> req.foodName,
               ingredients |-> req.ingredients,
               imageFile |-> None,
               imageUrl |-> None,
               imageBase64 |-> NoText,
               mediaType |-> None]
  IN IF req.image.present
       THEN [base EXCEPT !.imageBase64 = toBase64(req.image.bytes),
                         !.mediaType = IF req.image.type = "" THEN "image/jpeg"
                                       ELSE req.image.type]
     ELSE IF req.imageUrl # ""
       THEN [base EXCEPT !.imageUrl = req.imageUrl]
     ELSE IF req.imageBase64 # NoText
       THEN [base EXCEPT !.imageBase64 = req.imageBase64,
                         !.mediaType = "image/jpeg"]
     ELSE base

\* imageBase64.startsWith('data:')
startsWithData(text) == text # <<>> /\ Head(text) = "data:"

\* imageBase64.match(/^data:([^;]+);base64,(.+)$/): the scheme, a media
\* type of at least one character up to the first ";", the word base64, a
\* comma, and at least one character up to the end, none a line break.
\* The result is null (ok FALSE) or the two groups.
matchDataUrl(text) ==
  LET ok == /\ Len(text) >= 6
            /\ text[1] = "data:"
            /\ text[2] # ";"
            /\ text[3] = ";"
            /\ text[4] = "base64"
            /\ text[5] = ","
            /\ \A k \in 6..Len(text) : text[k] # "\n"
  IN [ok |-> ok,
      type |-> IF ok THEN text[2] ELSE None,
      data |-> IF ok THEN SubSeq(text, 6, Len(text)) ELSE NoText]

\* The data of a file part of the user message: a URL or bytes.
UrlData(url) == [kind |-> "url", url |-> url, bytes |-> <<>>]

BytesData(bytes) == [kind |-> "bytes", url |-> None, bytes |-> bytes]

\* Variant of imageParts that decodes the text of the field as it is.
imageParts_keepsPrefix(data) ==
  IF data.imageFile # None
    THEN <<[data |-> BytesData(data.imageFile),
            mediaType |-> IF data.mediaType # None THEN data.mediaType
                          ELSE "image/jpeg"]>>
  ELSE IF data.imageUrl # None /\ data.imageUrl # ""
    THEN <<[data |-> UrlData(data.imageUrl), mediaType |-> "image/jpeg"]>>
  ELSE IF data.imageBase64 # NoText
    THEN <<[data |-> BytesData(fromBase64(data.imageBase64)),
            mediaType |-> IF data.mediaType # None THEN data.mediaType
                          ELSE "image/jpeg"]>>
  ELSE <<>>

\* The image parts processFoodValidation pushes on the user content, from
\* job.data.
imageParts(data) ==
  IF data.imageFile # None
    THEN <<[data |-> BytesData(data.imageFile),
            mediaType |-> IF data.mediaType # None THEN data.mediaType
                          ELSE "image/jpeg"]>>
  ELSE IF data.imageUrl # None /\ data.imageUrl # ""
    THEN <<[data |-> UrlData(data.imageUrl), mediaType |-> "image/jpeg"]>>
  ELSE IF data.imageBase64 # NoText
    THEN LET default == IF data.mediaType # None THEN data.mediaType
                        ELSE "image/jpeg"
             match == matchDataUrl(data.imageBase64)
             strip == startsWithData(data.imageBase64) /\ match.ok
             mediaType == IF strip THEN match.type ELSE default
             cleanBase64 == IF strip THEN match.data ELSE data.imageBase64
         IN <<[data |-> BytesData(fromBase64(cleanBase64)),
               mediaType |-> mediaType]>>
  ELSE <<>>

\* The text part the user content starts with.
AnalyzeText == "Please analyze this food image and determine its compliance with various dietary standards."

\* Variant of userText that writes the header only when both hints are
\* given.
userText_needsBoth(data) ==
  LET foodName == data.foodName
      ingredients == data.ingredients
  IN <<AnalyzeText>>
       \o (IF foodName # "" /\ ingredients # ""
             THEN <<"\n", "\n", "Additional information:", "\n">> ELSE <<>>)
       \o (IF foodName # "" THEN <<"Food name: ", foodName, "\n">> ELSE <<>>)
       \o (IF ingredients # "" THEN <<"Ingredients: ", ingredients, "\n">> ELSE <<>>)

\* userContent[0].text as processFoodValidation leaves it: the request,
\* and the hints of job.data that are not empty under their header.  A text
\* is the sequence of its pieces, "\n" being a line break.
userText(data) ==
  LET foodName == data.foodName
      ingredients == data.ingredients
  IN <<AnalyzeText>>
       \o (IF foodName # "" \/ ingredients # ""
             THEN <<"\n", "\n", "Additional information:", "\n">>
                    \o (IF foodName # ""
                          THEN <<"Food name: ", foodName, "\n">> ELSE <<>>)
                    \o (IF ingredients # ""
                          THEN <<"Ingredients: ", ingredients, "\n">> ELSE <<>>)
             ELSE <<>>)

\* No timeout option: neither queue.add nor defaultJobOptions passes one.
NoTimeout == 0

\* The job options: what POST /validate-food passes to queue.add, over the
\* queue's defaultJobOptions.
jobOpts ==
  [priority |-> priority,
   delay |-> 0,
   attempts |-> attempts,
   backoff |-> [type |-> "exponential", delay |-> backoffDelay],
   timeout |-> NoTimeout,
   removeOnComplete |-> KeepCompleted,
   removeOnFail |-> KeepFailed]

\* ------------------------------------------------- the model's reply text

\* A reply of the model is a sequence of tokens: "ws" is white space,
\* "fence" the three backquotes, "jsonword" the letters json, and a body
\* token stands for a JSON text: objA and objB are objects of the
\* Classification Result shape, objPartial is an object without the
\* compliance flags, arr is an array, num is a number, null is null, junk is
\* text that is no JSON.
JsonValues == {"objA", "objB", "objPartial", "arr", "num", "null"}

\* The code fences a reply may open with: none, three backquotes, or three
\* backquotes and the word json.
Openers == {"none", "fence", "fencejson"}

\* The reply that holds body between an opening fence and a closing fence,
\* with white space where ws says: before the opening fence, after it,
\* before the closing fence, after it.  Without a fence it is body with
\* white space before and after.
Wrapped(body, opener, ws) ==
  LET sp(k) == IF ws[k] THEN <<"ws">> ELSE <<>>
      open == IF opener = "fencejson" THEN <<"fence", "jsonword">> ELSE <<"fence">>
  IN IF opener = "none"
       THEN sp(1) \o <<body>> \o sp(4)
       ELSE sp(1) \o open \o sp(2) \o <<body>> \o sp(3) \o <<"fence">> \o sp(4)

Replies ==
  { <<"objA">>,
    <<"fence", "jsonword", "ws", "objB", "ws", "fence">>,
    <<"ws", "fence", "ws", "objA", "fence", "ws">>,
    <<"junk">>,
    <<"fence", "jsonword", "ws", "junk">> }

\* What the awaited generateText call does: it throws, or returns a text.
Outcomes == {[kind |-> "throw", text |-> <<>>]} \cup [kind : {"text"}, text : Replies]

RECURSIVE DropLeadingWs(_)
DropLeadingWs(t) ==
  IF t # <<>> /\ Head(t) = "ws" THEN DropLeadingWs(Tail(t)) ELSE t

RECURSIVE DropTrailingWs(_)
DropTrailingWs(t) ==
  IF t # <<>> /\ t[Len(t)] = "ws" THEN DropTrailingWs(SubSeq(t, 1, Len(t) - 1)) ELSE t

\* String.prototype.trim
trim(t) == DropTrailingWs(DropLeadingWs(t))

\* t.replace(/\s*```$/, '')
StripClosingFence(t) ==
  IF t # <<>> /\ t[Len(t)] = "fence"
    THEN DropTrailingWs(SubSeq(t, 1, Len(t) - 1))
    ELSE t

\* Variant of cleanResponse that leaves the closing fence in place.
cleanResponse_keepsClosingFence(text) ==
  LET t == trim(text)
  IN IF Len(t) >= 2 /\ t[1] = "fence" /\ t[2] = "jsonword"
       THEN DropLeadingWs(SubSeq(t, 3, Len(t)))
     ELSE IF Len(t) >= 1 /\ t[1] = "fence"
       THEN DropLeadingWs(SubSeq(t, 2, Len(t)))
     ELSE t

\* Variant of cleanResponse that knows the ```json fence only.
cleanResponse_onlyJsonFence(text) ==
  LET t == trim(text)
  IN IF Len(t) >= 2 /\ t[1] = "fence" /\ t[2] = "jsonword"
       THEN StripClosingFence(DropLeadingWs(SubSeq(t, 3, Len(t))))
       ELSE t

\* The cleaning of the reply before JSON.parse.
cleanResponse(text) ==
  LET t == trim(text)
  IN IF Len(t) >= 2 /\ t[1] = "fence" /\ t[2] = "jsonword"
       THEN StripClosingFence(DropLeadingWs(SubSeq(t, 3, Len(t))))
     ELSE IF Len(t) >= 1 /\ t[1] = "fence"
       THEN StripClosingFence(DropLeadingWs(SubSeq(t, 2, Len(t))))
     ELSE t

\* JSON.parse: white space around one JSON text is allowed; anything else
\* throws (None).
JSONparse(t) ==
  LET u == trim(t)
  IN IF Len(u) = 1 /\ u[1] \in JsonValues THEN u[1] ELSE None

\* The inner try of processFoodValidation: the parsed value, or None when
\* JSON.parse throws or Object.keys(jsonResponse) throws (on null).
parseReply(text) ==
  LET v == JSONparse(cleanResponse(text))
  IN IF v = None \/ v = "null" THEN None ELSE v

\* ------------------------------------------------------------ the adapter

ApiError == "API call failed"
ParseError == "Failed to parse AI response as JSON"

\* What an error message of the adapter is put together from: the parse
\* failure is a fixed text followed by the message of JSON.parse's error;
\* result.text is written to the console only.
MessageParts(e) ==
  CASE e = ParseError -> {"Failed to parse AI response as JSON: ", "parseError.message"}
    [] e = ApiError -> {"error.message"}
    [] OTHER -> {}

\* job.returnvalue before the job has finished
NoReturn == [taskId |-> 0, status |-> None, result |-> None, error |-> None]

\* How the promise of processFoodValidation settles for an outcome of the
\* external call: the outer catch turns every error into a returned record.
processFoodValidation(id, outcome) ==
  LET parsed == IF outcome.kind = "throw" THEN None ELSE parseReply(outcome.text)
  IN IF outcome.kind # "throw" /\ parsed # None
       THEN [settled |-> "resolved",
             value |-> [taskId |-> id, status |-> "completed",
                        result |-> parsed, error |-> None]]
       ELSE [settled |-> "resolved",
             value |-> [taskId |-> id, status |-> "failed", result |-> None,
                        error |-> IF outcome.kind = "throw" THEN ApiError
                                  ELSE ParseError]]

\* The callback given to foodValidationQueue.process: it returns what
\* processFoodValidation returns and rethrows what it throws.
workerHandler(id, outcome) == processFoodValidation(id, outcome)

\* ---------------------------------------------------------------- state

VARIABLES
  queue,     \* the Redis keys of the Bull queue "food-validation"
  worker,    \* per worker process: the ids of the jobs its handler is running
  poll,      \* the GET /task-status request in progress, and where it is
  response,  \* the last HTTP response sent
  log,       \* history: per job, one entry per run of the worker's handler
  finished,  \* history: the ids in the order they reached a terminal state
  seen,      \* history: per job, the answers to polls begun after it was terminal
  proc,      \* per worker process: "running", "closing" (signalled) or "exited"
  overdue,   \* the jobs whose handler has run for longer than queueConfig.timeout
  broker,    \* whether Redis answers: "up" or "down"
  qs,        \* the GET /queue-status request in progress, and what it has read
  intake     \* one form on its way from POST /validate-food to the external call

\* The process, the broker, the queue statistics and the image intake.
ext == <<proc, overdue, broker, qs, intake>>

vars == <<queue, worker, poll, response, log, finished, seen, ext>>

\* A job hash as queue.add writes it.
newJob(id, data, opts) ==
  [id |-> id, data |-> data, opts |-> opts, attemptsMade |-> 0,
   returnvalue |-> NoReturn, failedReason |-> None,
   processedOn |-> FALSE, finishedOn |-> FALSE]

NoJob == newJob(0, taskData([image |-> NoFile, imageUrl |-> "", imageBase64 |-> NoText,
                             foodName |-> "", ingredients |-> ""]), jobOpts)

\* The job hash of id, or NoJob when there is none (getJob returns null).
Job(q, id) == IF id \in DOMAIN q.jobs THEN q.jobs[id] ELSE NoJob

WithJob(q, job) ==
  [q EXCEPT !.jobs = [i \in DOMAIN q.jobs \cup {job.id} |->
                        IF i = job.id THEN job ELSE q.jobs[i]]]

\* The job hashes of the ids in gone are deleted.
DelJobs(q, gone) ==
  [q EXCEPT !.jobs = [i \in DOMAIN q.jobs \ gone |-> q.jobs[i]]]

\* Variant of addJob that numbers a job by the count of unfinished jobs
\* instead of the id counter, so that ids of finished jobs come back.
addJob_countsPending(q, data, opts) ==
  LET id == Len(q.wait) + Len(q.active) + Len(q.delayed) + 1
  IN [WithJob(q, newJob(id, data, opts)) EXCEPT
        !.id = id,
        !.wait = Append(q.wait, id)]

\* Variant of addJob without the increment of the id counter: every job
\* after the first gets the id of the one before.
addJob_sameId(q, data, opts) ==
  LET id == IF q.id = 0 THEN 1 ELSE q.id
  IN [WithJob(q, newJob(id, data, opts)) EXCEPT
        !.id = id,
        !.wait = Append(q.wait, id)]

\* Variant of addJob that pushes the id on the consuming end of the wait
\* list (the lifo option of queue.add, which the gateway does not set).
addJob_lifo(q, data, opts) ==
  LET id == q.id + 1
  IN [WithJob(q, newJob(id, data, opts)) EXCEPT
        !.id = id,
        !.wait = <<id>> \o q.wait]

\* queue.add: Redis increments the id counter, writes the hash and puts the
\* id on the wait list (all jobs have the same priority: insertion order).
addJob(q, data, opts) ==
  LET id == q.id + 1
  IN [WithJob(q, newJob(id, data, opts)) EXCEPT
        !.id = id,
        !.wait = Append(q.wait, id)]

\* The delay timer of the queue: the delayed jobs that are due go back to
\* the wait list.
promoteDelayed(q, due) ==
  [q EXCEPT !.delayed = Without(q.delayed, due),
            !.wait = q.wait \o Without(q.delayed, SeqToSet(q.delayed) \ due)]

\* Variant of moveToActive that leaves the job on the wait list.
moveToActive_keepsWaiting(q) ==
  LET id == Head(q.wait)
  IN [WithJob(q, [q.jobs[id] EXCEPT !.processedOn = TRUE]) EXCEPT
        !.active = Append(q.active, id)]

\* A worker takes the next job: from the wait list to the active list.
moveToActive(q) ==
  LET id == Head(q.wait)
  IN [WithJob(q, [q.jobs[id] EXCEPT !.processedOn = TRUE]) EXCEPT
        !.wait = Tail(q.wait),
        !.active = Append(q.active, id)]

\* Variant of finishInto that treats every retention count as "remove the
\* job when it finishes".
finishInto_removesAtOnce(q, set, job, keep) ==
  DelJobs([q EXCEPT !.active = Without(q.active, {job.id})], {job.id})

\* Variant of finishInto that leaves the id on the active list.
finishInto_staysActive(q, set, job, keep) ==
  IF keep = 0
    THEN DelJobs(q, {job.id})
    ELSE LET all == Append(q[set], job.id)
             old == SeqToSet(ButLastN(all, keep))
         IN DelJobs([WithJob(q, [job EXCEPT !.finishedOn = TRUE])
                       EXCEPT ![set] = LastN(all, keep)], old)

\* The end of moveToFinished: the job joins the finished set named set, and
\* of that set only the newest keep jobs stay; the older ones are deleted.
\* keep = 0 deletes the job itself at once.
finishInto(q, set, job, keep) ==
  LET q1 == [q EXCEPT !.active = Without(q.active, {job.id})]
  IN IF keep = 0
       THEN DelJobs(q1, {job.id})
       ELSE LET all == Append(q1[set], job.id)
                old == SeqToSet(ButLastN(all, keep))
            IN DelJobs([WithJob(q1, [job EXCEPT !.finishedOn = TRUE])
                          EXCEPT ![set] = LastN(all, keep)], old)

\* The handler resolved with value.
moveToCompleted(q, id, value) ==
  LET job == [q.jobs[id] EXCEPT !.returnvalue = value]
  IN finishInto(q, "completed", job, job.opts.removeOnComplete)

\* The backoff before the next attempt: base * 2^(attemptsMade - 1).
backoffOf(job) == job.opts.backoff.delay * (2 ^ (job.attemptsMade - 1))

\* The handler rejected with reason: one more attempt made; the job is
\* retried after its backoff while attempts remain, and fails for good
\* otherwise.
moveToFailed(q, id, reason) ==
  LET job == [q.jobs[id] EXCEPT !.attemptsMade = @ + 1, !.failedReason = reason]
  IN IF job.attemptsMade < job.opts.attempts
       THEN IF backoffOf(job) > 0
              THEN [WithJob(q, job) EXCEPT
                      !.active = Without(q.active, {id}),
                      !.delayed = Append(q.delayed, id)]
              ELSE [WithJob(q, job) EXCEPT
                      !.active = Without(q.active, {id}),
                      !.wait = Append(q.wait, id)]
       ELSE finishInto(q, "failed", job, job.opts.removeOnFail)

\* What Bull does when the handler's promise settles.
settle(q, id, outcome) ==
  LET r == workerHandler(id, outcome)
  IN IF r.settled = "resolved"
       THEN moveToCompleted(q, id, r.value)
       ELSE moveToFailed(q, id, r.value.error)

\* job.getState()
getState(q, id) ==
  CASE id \in SeqToSet(q.completed) -> "completed"
    [] id \in SeqToSet(q.failed) -> "failed"
    [] id \in SeqToSet(q.delayed) -> "delayed"
    [] id \in SeqToSet(q.active) -> "active"
    [] id \in SeqToSet(q.wait) -> "waiting"
    [] OTHER -> "stuck"

\* ------------------------------------------------------- HTTP responses

NoEndpoint == [path |-> None, id |-> 0]

\* The fields of a JSON response the model keeps; a field a response does
\* not carry holds None (0 for taskId, -1 for the numbers).
NoCounts == [waiting |-> -1, active |-> -1, completed |-> -1, failed |-> -1,
             delayed |-> -1, total |-> -1]

NoResponse ==
  [kind |-> "none", code |-> 0, taskId |-> 0, status |-> None, result |-> None,
   error |-> None, attempts |-> -1, maxAttempts |-> -1, queuePosition |-> -1,
   statusEndpoint |-> NoEndpoint, counts |-> NoCounts, redis_connected |-> FALSE]

NoImageMessage == "Please provide either an image file, image URL, or base64 encoded image"

\* POST /validate-food without an image field
badRequest ==
  [NoResponse EXCEPT !.kind = "post", !.code = 400, !.error = NoImageMessage]

\* Variant of queued that answers before the job id is known.
queued_withoutId(id) ==
  [NoResponse EXCEPT !.kind = "post", !.code = 200]

\* POST /validate-food after queue.add returned the job id
queued(id) ==
  [NoResponse EXCEPT !.kind = "post", !.code = 200, !.taskId = id,
                     !.statusEndpoint = [path |-> "/task-status/", id |-> id]]

\* Variant of queueFailed that reports success with the id of the newest job.
queueFailed_reportsSuccess(q) ==
  [NoResponse EXCEPT !.kind = "post", !.code = 200, !.taskId = q.id,
                     !.statusEndpoint = [path |-> "/task-status/", id |-> q.id]]

\* POST /validate-food when queue.add on the queue q throws
queueFailed(q) ==
  [NoResponse EXCEPT !.kind = "post", !.code = 500,
                     !.error = "Failed to queue food validation task"]

\* GET /task-status/:taskId when a call on the queue throws
statusFailed(id) ==
  [NoResponse EXCEPT !.kind = "status", !.code = 500, !.taskId = id,
                     !.error = "Failed to retrieve task status"]

\* Variant of notFound that answers for an unknown job as for a stored one.
notFound_asStuck(id) ==
  [NoResponse EXCEPT !.kind = "status", !.code = 200, !.taskId = id,
                     !.status = "stuck"]

\* GET /task-status/:taskId when getJob returns null
notFound(id) ==
  [NoResponse EXCEPT !.kind = "status", !.code = 404, !.taskId = id,
                     !.error = "Task not found"]

\* Job ids are strings in Bull (job.id) and parseInt(taskId) is a number.
JobId(n) == [type |-> "string", v |-> n]
parseInt(n) == [type |-> "number", v |-> n]

RECURSIVE findIndex(_, _)
\* waiting.findIndex(j => j.id === parseInt(taskId)), 0-based, -1 if none
findIndex(w, taskId) ==
  IF w = <<>> THEN -1
  ELSE IF JobId(Head(w)) = parseInt(taskId) THEN 0
  ELSE LET r == findIndex(Tail(w), taskId)
       IN IF r = -1 THEN -1 ELSE r + 1

\* Variant of statusResponse with attempts and maxAttempts exchanged.
statusResponse_swapsAttempts(job, jobState, waiting) ==
  LET result == job.returnvalue
      base == [NoResponse EXCEPT
                 !.kind = "status", !.code = 200, !.taskId = job.id,
                 !.status = jobState,
                 !.attempts = IF job.opts.attempts # 0 THEN job.opts.attempts ELSE 3,
                 !.maxAttempts = job.attemptsMade]
      r1 == IF jobState = "completed" /\ result # NoReturn
              THEN [base EXCEPT !.result = result.result]
              ELSE base
      r2 == IF jobState = "failed" /\ job.failedReason # None
              THEN [r1 EXCEPT !.error = job.failedReason]
              ELSE r1
  IN IF jobState = "waiting"
       THEN [r2 EXCEPT !.queuePosition = findIndex(waiting, job.id) + 1]
       ELSE r2

\* The body GET /task-status builds from the job read by getJob, the state
\* read by getState and, for a waiting job, the list read by getWaiting.
statusResponse(job, jobState, waiting) ==
  LET result == job.returnvalue
      base == [NoResponse EXCEPT
                 !.kind = "status", !.code = 200, !.taskId = job.id,
                 !.status = jobState,
                 !.attempts = job.attemptsMade,
                 !.maxAttempts = IF job.opts.attempts # 0 THEN job.opts.attempts ELSE 3]
      r1 == IF jobState = "completed" /\ result # NoReturn
              THEN [base EXCEPT !.result = result.result]
              ELSE base
      r2 == IF jobState = "failed" /\ job.failedReason # None
              THEN [r1 EXCEPT !.error = job.failedReason]
              ELSE r1
  IN IF jobState = "waiting"
       THEN [r2 EXCEPT !.queuePosition = findIndex(waiting, job.id) + 1]
       ELSE r2

\* ----------------------------------------------------------------- Init

\* The queue before any job is added.
EmptyQueue ==
  [id |-> 0, jobs |-> <<>>, wait |-> <<>>, active |-> <<>>,
   completed |-> <<>>, failed |-> <<>>, delayed |-> <<>>]

Idle == [pc |-> "idle", id |-> 0, job |-> NoJob, state |-> None, after |-> FALSE]

\* No GET /queue-status is in progress.  start is history: the queue as the
\* first read of the request in progress found it.
NoStats == [read |-> 0, counts |-> NoCounts, start |-> EmptyQueue]

\* No form is on its way.
NoIntake ==
  [stage |-> "none",
   form |-> [image |-> NoFile, imageUrl |-> "", imageBase64 |-> NoText,
             foodName |-> "", ingredients |-> ""],
   task |-> NoJob.data, parts |-> <<>>, prompt |-> <<>>,
   body |-> None, text |-> <<>>, value |-> NoReturn]

\* The state the extra variables have after start-up.
ExtInit ==
  /\ proc = [w \in Workers |-> "running"]
  /\ overdue = {}
  /\ broker = "up"
  /\ qs = NoStats

Init ==
  /\ queue = EmptyQueue
  /\ worker = [w \in Workers |-> {}]
  /\ poll = Idle
  /\ response = NoResponse
  /\ log = [i \in Ids |-> <<>>]
  /\ finished = <<>>
  /\ seen = [i \in Ids |-> {}]
  /\ ExtInit
  /\ intake = NoIntake

\* -------------------------------------------------------------- actions

\* POST /validate-food
PostValidateFood(req) ==
  /\ IF NoImage(req)
       THEN /\ response' = badRequest
            /\ UNCHANGED queue
       ELSE IF broker = "down"
         THEN /\ response' = queueFailed(queue)
              /\ UNCHANGED queue
         ELSE /\ queue.id < MaxJobs
              /\ queue' = addJob(queue, taskData(req), jobOpts)
              /\ response' = queued(queue'.id)
  /\ UNCHANGED <<worker, poll, log, finished, seen, ext>>

\* Variant of Claim that takes a job whatever the worker has under way.
Claim_noLimit(w) ==
  /\ proc[w] = "running"
  /\ \E due \in SUBSET SeqToSet(queue.delayed) :
       LET q == promoteDelayed(queue, due)
       IN /\ q.wait # <<>>
          /\ queue' = moveToActive(q)
          /\ worker' = [worker EXCEPT ![w] = @ \cup {Head(q.wait)}]
  /\ UNCHANGED <<poll, response, log, finished, seen, ext>>

\* A worker with a free handler slot takes the next waiting job and calls
\* its handler, which runs up to the await of the external call.
Claim(w) ==
  /\ proc[w] = "running"
  /\ Cardinality(worker[w]) < concurrency
  /\ \E due \in SUBSET SeqToSet(queue.delayed) :
       LET q == promoteDelayed(queue, due)
       IN /\ q.wait # <<>>
          /\ queue' = moveToActive(q)
          /\ worker' = [worker EXCEPT ![w] = @ \cup {Head(q.wait)}]
  /\ UNCHANGED <<poll, response, log, finished, seen, ext>>

\* What the reply of the external service is, whatever its layout.
Truth(outcome) ==
  IF outcome.kind = "throw" THEN "throw"
  ELSE CHOOSE b \in JsonValues \cup {"junk"} : b \in SeqToSet(outcome.text)

\* The lists of the queue that hold the id i.
ListsOf(q, i) ==
  {l \in {"wait", "active", "delayed", "completed", "failed"} : i \in SeqToSet(q[l])}

\* The job of id has finished: it is in a finished set, or it was deleted
\* on finishing.
Terminal(q, id) ==
  \/ ListsOf(q, id) \cap {"completed", "failed"} # {}
  \/ id \notin DOMAIN q.jobs

\* The external call of one of worker w's jobs returns or throws; the
\* handler runs to its end and Bull records how it settled.
Finish(w, outcome) ==
  \E id \in worker[w] :
     /\ proc[w] # "exited"
     /\ queue' = settle(queue, id, outcome)
     /\ worker' = [worker EXCEPT ![w] = @ \ {id}]
     /\ log' = [log EXCEPT ![id] =
                  Append(@, [adapter |-> Truth(outcome),
                             settled |-> workerHandler(id, outcome).settled])]
     /\ finished' = IF Terminal(queue', id) THEN Append(finished, id) ELSE finished
     /\ UNCHANGED <<poll, response, seen, ext>>

\* The answer to a poll is sent; it is remembered if the poll began after
\* the job had reached a terminal state.
Reply(id, r, after) ==
  /\ response' = r
  /\ seen' = IF after THEN [seen EXCEPT ![id] = @ \cup {r}] ELSE seen
  /\ poll' = Idle

\* GET /task-status/:taskId up to its first await: getJob
StatusGetJob(id) ==
  /\ poll.pc = "idle"
  /\ LET after == id \in SeqToSet(finished)
     IN IF broker = "down"
          THEN Reply(id, statusFailed(id), after)
        ELSE IF id \notin DOMAIN queue.jobs
          THEN Reply(id, notFound(id), after)
          ELSE /\ poll' = [pc |-> "getState", id |-> id, job |-> queue.jobs[id],
                           state |-> None, after |-> after]
               /\ UNCHANGED <<response, seen>>
  /\ UNCHANGED <<queue, worker, log, finished, ext>>

\* ... its second await: job.getState()
StatusGetState ==
  /\ poll.pc = "getState"
  /\ LET jobState == getState(queue, poll.id)
     IN IF broker = "down"
          THEN Reply(poll.id, statusFailed(poll.id), poll.after)
        ELSE IF jobState = "waiting"
          THEN /\ poll' = [poll EXCEPT !.pc = "getWaiting", !.state = jobState]
               /\ UNCHANGED <<response, seen>>
          ELSE Reply(poll.id, statusResponse(poll.job, jobState, <<>>), poll.after)
  /\ UNCHANGED <<queue, worker, log, finished, ext>>

\* Variant of StatusGetWaiting that takes the job off the wait list when
\* it answers: a poll that consumes.
StatusGetWaiting_consumes ==
  /\ poll.pc = "getWaiting"
  /\ IF broker = "down"
       THEN /\ Reply(poll.id, statusFailed(poll.id), poll.after)
            /\ UNCHANGED queue
       ELSE /\ Reply(poll.id, statusResponse(poll.job, poll.state, queue.wait), poll.after)
            /\ queue' = [DelJobs(queue, {poll.id}) EXCEPT
                           !.wait = Without(@, {poll.id})]
  /\ UNCHANGED <<worker, log, finished, ext>>

\* ... its third await, for a job seen waiting: getWaiting()
StatusGetWaiting ==
  /\ poll.pc = "getWaiting"
  /\ IF broker = "down"
       THEN Reply(poll.id, statusFailed(poll.id), poll.after)
       ELSE Reply(poll.id, statusResponse(poll.job, poll.state, queue.wait), poll.after)
  /\ UNCHANGED <<queue, worker, log, finished, ext>>

Next ==
  \/ \E req \in Requests : PostValidateFood(req)
  \/ \E w \in Workers : Claim(w)
  \/ \E w \in Workers, outcome \in Outcomes : Finish(w, outcome)
  \/ \E id \in Ids : StatusGetJob(id)
  \/ StatusGetState
  \/ StatusGetWaiting

Spec == Init /\ [][Next]_vars

\* The worker loop keeps taking jobs, and an external call that is under
\* way returns or throws.
FairSpec ==
  /\ Spec
  /\ \A w \in Workers : WF_vars(Claim(w))
  /\ \A w \in Workers : WF_vars(\E outcome \in Outcomes : Finish(w, outcome))

\* ----------------------------------------------------- GET /queue-status

\* The lists GET /queue-status reads, in the order of its awaits, and the
\* count each gives.
StatusLists == <<"wait", "active", "completed", "failed", "delayed">>

CountNames == <<"waiting", "active", "completed", "failed", "delayed">>

\* GET /queue-status when a call on the queue throws
statsFailed ==
  [NoResponse EXCEPT !.kind = "stats", !.code = 500,
                     !.error = "Failed to retrieve queue status"]

\* Variant of statsResponse that reports the failed jobs as completed and
\* the completed jobs as failed.
statsResponse_swapsFinished(counts) ==
  [NoResponse EXCEPT
     !.kind = "stats", !.code = 200,
     !.counts = [counts EXCEPT
                   !.completed = counts.failed,
                   !.failed = counts.completed,
                   !.total = counts.waiting + counts.active + counts.completed
                               + counts.failed + counts.delayed]]

\* The body of GET /queue-status from the lengths of the five lists.
statsResponse(counts) ==
  [NoResponse EXCEPT
     !.kind = "stats", !.code = 200,
     !.counts = [counts EXCEPT
                   !.total = counts.waiting + counts.active + counts.completed
                               + counts.failed + counts.delayed]]

\* One await of GET /queue-status: getWaiting, getActive, getCompleted,
\* getFailed, getDelayed in turn; after the last the response is sent.
QueueStatusRead ==
  /\ LET k == qs.read + 1
         counts == [qs.counts EXCEPT ![CountNames[k]] = Len(queue[StatusLists[k]])]
     IN IF broker = "down"
          THEN /\ response' = statsFailed
               /\ qs' = NoStats
        ELSE IF k < Len(StatusLists)
          THEN /\ qs' = [read |-> k, counts |-> counts,
                         start |-> IF k = 1 THEN queue ELSE qs.start]
               /\ UNCHANGED response
          ELSE /\ response' = statsResponse(counts)
               /\ qs' = NoStats
  /\ UNCHANGED <<queue, worker, poll, log, finished, seen,
                 proc, overdue, broker, intake>>

StatsNext ==
  \/ \E req \in Requests : PostValidateFood(req)
  \/ \E w \in Workers : Claim(w)
  \/ \E w \in Workers, outcome \in Outcomes : Finish(w, outcome)
  \/ QueueStatusRead

\* The queue, its workers and the requests for the queue statistics.
StatsSpec == Init /\ [][StatsNext]_vars

\* ------------------------------------------------------ the image intake

\* A form arrives at POST /validate-food.
IntakeInit ==
  /\ queue = EmptyQueue
  /\ worker = [w \in Workers |-> {}]
  /\ poll = Idle
  /\ response = NoResponse
  /\ log = [i \in Ids |-> <<>>]
  /\ finished = <<>>
  /\ seen = [i \in Ids |-> {}]
  /\ ExtInit
  /\ \E f \in Forms : intake = [NoIntake EXCEPT !.stage = "form", !.form = f]

\* POST /validate-food checks the image fields and builds the task data.
BuildTask ==
  /\ intake.stage = "form"
  /\ intake' = IF NoImage(intake.form)
                 THEN [intake EXCEPT !.stage = "rejected"]
                 ELSE [intake EXCEPT !.stage = "queued",
                                     !.task = taskData(intake.form)]
  /\ UNCHANGED <<queue, worker, poll, response, log, finished, seen,
                 proc, overdue, broker, qs>>

\* processFoodValidation builds the user content from the task data.
BuildContent ==
  /\ intake.stage = "queued"
  /\ intake' = [intake EXCEPT !.stage = "sent",
                              !.parts = imageParts(intake.task),
                              !.prompt = userText(intake.task)]
  /\ UNCHANGED <<queue, worker, poll, response, log, finished, seen,
                 proc, overdue, broker, qs>>

IntakeNext == BuildTask \/ BuildContent

\* One form, from the request to the content sent to the external service.
IntakeSpec == IntakeInit /\ [][IntakeNext]_vars

\* ------------------------------------------------- the reply, on its own

\* The external service has replied to the call of job 1 with a text: a
\* JSON text or text that is no JSON, bare or inside a code fence.
ReplyInit ==
  /\ queue = EmptyQueue
  /\ worker = [w \in Workers |-> {}]
  /\ poll = Idle
  /\ response = NoResponse
  /\ log = [i \in Ids |-> <<>>]
  /\ finished = <<>>
  /\ seen = [i \in Ids |-> {}]
  /\ ExtInit
  /\ \E body \in JsonValues \cup {"junk"}, opener \in Openers,
        ws \in [1..4 -> BOOLEAN] :
       intake = [NoIntake EXCEPT !.stage = "replied", !.body = body,
                                 !.text = Wrapped(body, opener, ws)]

\* processFoodValidation runs from the return of generateText to its end.
HandleReply ==
  /\ intake.stage = "replied"
  /\ intake' = [intake EXCEPT
                  !.stage = "handled",
                  !.value = processFoodValidation(
                              1, [kind |-> "text", text |-> intake.text]).value]
  /\ UNCHANGED <<queue, worker, poll, response, log, finished, seen,
                 proc, overdue, broker, qs>>

ReplyNext == HandleReply

\* One reply, from the return of the external call to the value the
\* handler returns.
ReplySpec == ReplyInit /\ [][ReplyNext]_vars

\* ------------------------------------------------------------ the broker

\* The body of GET /health: redis_connected is the literal true.
healthResponse ==
  [NoResponse EXCEPT !.kind = "health", !.code = 200, !.status = "healthy",
                     !.redis_connected = TRUE]

\* GET /health: the handler makes no call on the queue or on Redis.
Health ==
  /\ response' = healthResponse
  /\ UNCHANGED <<queue, worker, poll, log, finished, seen, ext>>

\* Redis stops answering: the commands of the gateway are rejected once the
\* retries of redisConfig are used up.
BrokerFails ==
  /\ broker = "up"
  /\ broker' = "down"
  /\ UNCHANGED <<queue, worker, poll, response, log, finished, seen,
                 proc, overdue, qs, intake>>

\* Redis answers again, with the keys it had.
BrokerRecovers ==
  /\ broker = "down"
  /\ broker' = "up"
  /\ UNCHANGED <<queue, worker, poll, response, log, finished, seen,
                 proc, overdue, qs, intake>>

GatewayNext ==
  \/ \E req \in Requests : PostValidateFood(req)
  \/ \E id \in Ids : StatusGetJob(id)
  \/ StatusGetState
  \/ StatusGetWaiting
  \/ QueueStatusRead
  \/ Health
  \/ BrokerFails
  \/ BrokerRecovers

\* The gateway against a Redis that may stop and resume answering.
GatewaySpec == Init /\ [][GatewayNext]_vars

\* ------------------------------------------------ the worker process

\* The reason Bull gives a job whose handler outlives its timeout option.
TimeoutReason == "Promise timed out"

\* The handler of one of worker w's jobs has been running for
\* queueConfig.timeout ms.  Bull arms a timer for a job only if the job has
\* a timeout option; when it fires the attempt fails and the slot is free.
TimeoutElapses(w) ==
  \E id \in worker[w] \ overdue :
    /\ proc[w] # "exited"
    /\ overdue' = overdue \cup {id}
    /\ IF queue.jobs[id].opts.timeout # NoTimeout
         THEN /\ queue' = moveToFailed(queue, id, TimeoutReason)
              /\ worker' = [worker EXCEPT ![w] = @ \ {id}]
              /\ log' = [log EXCEPT ![id] =
                           Append(@, [adapter |-> "timeout", settled |-> "rejected"])]
              /\ finished' = IF Terminal(queue', id)
                               THEN Append(finished, id) ELSE finished
         ELSE UNCHANGED <<queue, worker, log, finished>>
    /\ UNCHANGED <<poll, response, seen, proc, broker, qs, intake>>

\* Variant of Signal in which close() also empties the wait list.
Signal_dropsWaiting(w) ==
  /\ proc[w] = "running"
  /\ proc' = [proc EXCEPT ![w] = "closing"]
  /\ queue' = [DelJobs(queue, SeqToSet(queue.wait)) EXCEPT !.wait = <<>>]
  /\ UNCHANGED <<worker, poll, response, log, finished, seen,
                 overdue, broker, qs, intake>>

\* SIGTERM or SIGINT reaches worker w: its handler calls
\* foodValidationQueue.close(), which stops the loop from taking jobs.
Signal(w) ==
  /\ proc[w] = "running"
  /\ proc' = [proc EXCEPT ![w] = "closing"]
  /\ UNCHANGED <<queue, worker, poll, response, log, finished, seen,
                 overdue, broker, qs, intake>>

\* Variant of Exit in which close() does not wait for the running handlers.
Exit_doesNotWait(w) ==
  /\ proc[w] = "closing"
  /\ proc' = [proc EXCEPT ![w] = "exited"]
  /\ UNCHANGED <<queue, worker, poll, response, log, finished, seen,
                 overdue, broker, qs, intake>>

\* close() resolves once the handlers that were running have settled, and
\* the signal handler calls process.exit(0).
Exit(w) ==
  /\ proc[w] = "closing"
  /\ worker[w] = {}
  /\ proc' = [proc EXCEPT ![w] = "exited"]
  /\ UNCHANGED <<queue, worker, poll, response, log, finished, seen,
                 overdue, broker, qs, intake>>

WorkerNext ==
  \/ \E req \in Requests : PostValidateFood(req)
  \/ \E w \in Workers : Claim(w)
  \/ \E w \in Workers, outcome \in Outcomes : Finish(w, outcome)
  \/ \E w \in Workers : TimeoutElapses(w)
  \/ \E w \in Workers : Signal(w)
  \/ \E w \in Workers : Exit(w)

\* The queue and its worker processes, with the passing of the timeout and
\* the shutdown signals.
WorkerSpec == Init /\ [][WorkerNext]_vars

\* An exception or a promise rejection that nothing handles reaches worker
\* w: the uncaughtException / unhandledRejection handler logs it and calls
\* process.exit(1) at once, whatever the handlers of its jobs are doing.
Crash(w) ==
  /\ proc[w] # "exited"
  /\ proc' = [proc EXCEPT ![w] = "exited"]
  /\ UNCHANGED <<queue, worker, poll, response, log, finished, seen,
                 overdue, broker, qs, intake>>

CrashNext ==
  \/ WorkerNext
  \/ \E w \in Workers : Crash(w)

\* The worker processes with every way they end: signal and close, or the
\* handlers of uncaught errors.
CrashSpec == Init /\ [][CrashNext]_vars

\* ------------------------------------------------- notions the claims use

\* The adapter failed on an attempt: the external call threw, or its reply
\* is no JSON text.
AdapterFailed(e) == e.adapter \in {"throw", "junk"}

\* The external call succeeded and its reply is JSON of the Classification
\* Result shape.
WellFormed(e) == e.adapter \in {"objA", "objB"}

Last(s) == s[Len(s)]

HasFinished(i) == i \in SeqToSet(finished)

\* How many jobs reached a terminal state after job i did.
FinishedAfter(i) ==
  Cardinality({k \in 1..Len(finished) :
                 \E m \in 1..Len(finished) : finished[m] = i /\ m < k})

\* ------------------------------------------------------------------ C1
\* C1: a job that has reached its terminal state after the adapter failed on
\* every attempt is in state "failed" with attemptsMade equal to its
\* max-attempts bound.
C1_AllAttemptsFailedEndsFailed ==
  \A i \in DOMAIN queue.jobs :
    (HasFinished(i) /\ \A k \in 1..Len(log[i]) : AdapterFailed(log[i][k]))
      => /\ getState(queue, i) = "failed"
         /\ queue.jobs[i].attemptsMade = queue.jobs[i].opts.attempts

\* ------------------------------------------------------------------ C2
\* C2: every run of the worker's handler in which the adapter raised an
\* error settled as a rejection, never as a resolution.
C2_AdapterErrorRejects ==
  \A i \in Ids : \A k \in 1..Len(log[i]) :
    AdapterFailed(log[i][k]) => log[i][k].settled = "rejected"

C4_EarlyFailureIsRetried ==
  \A i \in Ids :
    (HasFinished(i) /\ Len(log[i]) < attempts) => ~AdapterFailed(Last(log[i]))

\* ------------------------------------------------------------------ C5
\* C5: every poll begun after a job ended in an adapter error, and finding
\* the job, reports status "failed" with an error field.
C5_AdapterErrorReportedFailed ==
  \A i \in Ids : \A r \in seen[i] :
    (AdapterFailed(Last(log[i])) /\ r.code = 200 /\ r.status # "stuck")
      => r.status = "failed" /\ r.error # None

C7_NoImageIsRejected ==
  [][\A req \in Requests :
       (/\ ~req.image.present /\ req.imageUrl = "" /\ req.imageBase64 = <<>>
        /\ PostValidateFood(req))
         => /\ response'.kind = "post"
            /\ response'.code = 400
            /\ response'.error = NoImageMessage
            /\ response'.taskId = 0
            /\ queue' = queue]_vars

\* The 400 has been sent while jobs were in the queue.
C7_Witness ==
  /\ response.kind = "post"
  /\ response.code = 400
  /\ queue.id > 0
  /\ queue.wait # <<>>

Found(i) == {r \in seen[i] : r.code = 200 /\ r.status # "stuck"}

C9_OneTerminalState ==
  [][\A i \in Ids :
       HasFinished(i)' =>
         /\ ListsOf(queue, i)' \in {{}, {"completed"}, {"failed"}}
         /\ Cardinality({k \in 1..Len(finished') : finished'[k] = i}) = 1
         /\ HasFinished(i) =>
              ListsOf(queue, i)' \in {{}, ListsOf(queue, i)}]_vars

\* A job is completed while a later job has been taken by a worker.
C9_Witness ==
  \E i, j \in Ids :
    /\ i # j
    /\ HasFinished(i)
    /\ ListsOf(queue, i) = {"completed"}
    /\ ListsOf(queue, j) = {"active"}

\* ------------------------------------------------------------------ C10
\* C10: the attempt counter of every job is at most its max-attempts
\* bound, and every status response has attempts <= maxAttempts.
C10_AttemptsBounded ==
  /\ \A i \in DOMAIN queue.jobs :
       queue.jobs[i].attemptsMade <= queue.jobs[i].opts.attempts
  /\ (response.kind = "status" /\ response.code = 200)
       => response.attempts <= response.maxAttempts

\* A status response for a job whose handler has run.
C10_Witness ==
  /\ response.kind = "status"
  /\ response.code = 200
  /\ response.taskId \in Ids
  /\ log[response.taskId] # <<>>
  /\ response.attempts >= 0

\* ------------------------------------------------------------------ C11
\* C11: a job whose handler has run for longer than the 30-minute timeout
\* is no longer being processed, and what the queue stores of it carries the
\* timeout as its failure reason.
C11_OverdueJobIsFailed ==
  \A id \in overdue :
    /\ "active" \notin ListsOf(queue, id)
    /\ id \in DOMAIN queue.jobs => queue.jobs[id].failedReason = TimeoutReason

\* ------------------------------------------------------------------ C12
\* C12: a worker process that has received SIGTERM or SIGINT takes no
\* further job, and when it exits none of its handlers is still running.
C12_GracefulShutdown ==
  [][\A w \in Workers :
       /\ proc[w] # "running" => worker'[w] \subseteq worker[w]
       /\ proc'[w] = "exited" => worker'[w] = {}]_vars

\* One worker was signalled while it ran a job and another job waits; the
\* other worker has exited.
C12_Witness ==
  \E w, v \in Workers :
    /\ proc[w] = "closing" /\ worker[w] # {} /\ queue.wait # <<>>
    /\ proc[v] = "exited"

\* ------------------------------------------------------------------ C13
\* C13: the step of POST /validate-food that writes a job to the queue also
\* sends the response, which carries the id of that job and its status
\* endpoint and nothing of a result; no worker takes part in the step, and
\* the job has not been run when the response is sent.
C13_RespondsAtEnqueue ==
  [][queue'.id # queue.id =>
       /\ response' = [NoResponse EXCEPT
                         !.kind = "post", !.code = 200, !.taskId = queue'.id,
                         !.statusEndpoint = [path |-> "/task-status/", id |-> queue'.id]]
       /\ worker' = worker /\ log' = log
       /\ log[queue'.id] = <<>>
       /\ ListsOf(queue', queue'.id) = {"wait"}]_vars

\* The response to an enqueue has been sent and no worker has taken a job.
C13_Witness ==
  /\ response.kind = "post" /\ response.code = 200
  /\ response.taskId = queue.id
  /\ \A w \in Workers : worker[w] = {}
  /\ \A i \in Ids : log[i] = <<>>
  /\ Len(queue.wait) = queue.id

\* ------------------------------------------------------------------ C14
\* C14: a running worker process that has fewer than QUEUE_CONCURRENCY jobs in
\* progress can take a waiting job, so that one process works on up to
\* QUEUE_CONCURRENCY jobs at the same time.
C14_WorkerTakesUpToN ==
  \A w \in Workers :
    (/\ proc[w] = "running"
     /\ queue.wait # <<>>
     /\ Cardinality(worker[w]) < QUEUE_CONCURRENCY)
      => ENABLED Claim(w)

\* ------------------------------------------------------------------ C15
\* C15: when GET /queue-status answers and the queue did not change between
\* its reads, then of the jobs the queue stores the count "waiting" is the
\* number never taken by a worker, the count "completed" is the number that
\* finished after a successful adapter call, and the count "failed" is the
\* number that finished after the adapter failed on every attempt.
C15_CountsMatchOutcomes ==
  [][(qs.read = Len(StatusLists) - 1 /\ qs'.read = 0 /\ broker = "up"
        /\ (qs.read > 0 => queue = qs.start))
       => LET stored == DOMAIN queue.jobs
              c == response'.counts
          IN /\ c.waiting = Cardinality({i \in stored :
                    log[i] = <<>> /\ \A w \in Workers : i \notin worker[w]})
             /\ c.completed = Cardinality({i \in stored :
                    HasFinished(i) /\ WellFormed(Last(log[i]))})
             /\ c.failed = Cardinality({i \in stored :
                    /\ HasFinished(i)
                    /\ \A k \in 1..Len(log[i]) : AdapterFailed(log[i][k])})]_vars

\* ------------------------------------------------------------------ C16
\* The text is data:<type>;base64,<data> with <data> base64 text on one line.
PlainDataUrl(text) ==
  /\ Len(text) >= 6
  /\ text[1] = "data:" /\ text[2] \notin Skipped /\ text[3] = ";"
  /\ text[4] = "base64" /\ text[5] = ","
  /\ \A k \in 6..Len(text) : text[k] \in Chunks

\* The text is base64 text without a prefix.
RawBase64(text) == text # <<>> /\ \A k \in DOMAIN text : text[k] \in Chunks

\* The form supplies its image in the imageBase64 field only.
Base64Only(form) == ~form.image.present /\ form.imageUrl = ""

\* C16: for a form whose image is the imageBase64 field, the content sent
\* has one image part; if the field is data:<type>;base64,<data> the part has
\* media type <type> and bytes whose base64 encoding is <data>; if the field
\* is raw base64 the part has media type image/jpeg and bytes whose base64
\* encoding is the whole field.
C16_Base64Normalised ==
  (intake.stage = "sent" /\ Base64Only(intake.form))
    => LET text == intake.form.imageBase64
           parts == intake.parts
       IN /\ PlainDataUrl(text)
               => /\ Len(parts) = 1
                  /\ parts[1].mediaType = text[2]
                  /\ parts[1].data.kind = "bytes"
                  /\ toBase64(parts[1].data.bytes) = SubSeq(text, 6, Len(text))
          /\ RawBase64(text)
               => /\ Len(parts) = 1
                  /\ parts[1].mediaType = "image/jpeg"
                  /\ parts[1].data.kind = "bytes"
                  /\ toBase64(parts[1].data.bytes) = text

\* The content for a data URL of two chunks has been built.
C16_Witness ==
  /\ intake.stage = "sent" /\ Base64Only(intake.form)
  /\ PlainDataUrl(intake.form.imageBase64)
  /\ Len(intake.form.imageBase64) = 7
  /\ intake.parts[1].mediaType = "image/webp"

\* ------------------------------------------------------------------ C17
\* The image fields a form supplies.
Supplied(form) ==
  {f \in {"image", "imageUrl", "imageBase64"} :
     \/ f = "image" /\ form.image.present
     \/ f = "imageUrl" /\ form.imageUrl # ""
     \/ f = "imageBase64" /\ form.imageBase64 # NoText}

\* The image-reference fields of a task payload that hold something.
Populated(task) ==
  {f \in {"imageFile", "imageUrl", "imageBase64"} :
     \/ f = "imageFile" /\ task.imageFile # None
     \/ f = "imageUrl" /\ task.imageUrl \notin {None, ""}
     \/ f = "imageBase64" /\ task.imageBase64 # NoText}

\* C17: for a form that supplies more than one image field, the task
\* payload has exactly one image-reference field populated, the one of the
\* first supplied of file, URL, base64, and the content sent has exactly
\* one image part: the file's bytes, else the URL, else the base64 data.
C17_OneImageByPrecedence ==
  (intake.stage \in {"queued", "sent"} /\ Cardinality(Supplied(intake.form)) > 1)
    => LET form == intake.form
           task == intake.task
       IN /\ Cardinality(Populated(task)) = 1
          /\ form.image.present => Populated(task) = {"imageBase64"}
          /\ ~form.image.present => Populated(task) = {"imageUrl"}
          /\ intake.stage = "sent"
               => /\ Len(intake.parts) = 1
                  /\ IF form.image.present
                       THEN intake.parts[1].data = BytesData(form.image.bytes)
                       ELSE intake.parts[1].data = UrlData(form.imageUrl)

\* ------------------------------------------------------------------ C18
\* C18: GET /task-status for an id that no enqueue has returned answers 404
\* with the error "Task not found" and leaves the queue as it is.
C18_UnknownIdIsNotFound ==
  [][\A id \in Ids :
       (StatusGetJob(id) /\ id > queue.id)
         => /\ response' = [NoResponse EXCEPT
                              !.kind = "status", !.code = 404, !.taskId = id,
                              !.error = "Task not found"]
            /\ queue' = queue
            /\ poll' = Idle]_vars

\* A poll for an id not yet issued was answered while the queue holds a job.
C18_Witness ==
  /\ response.kind = "status" /\ response.code = 404
  /\ response.taskId > queue.id
  /\ queue.id > 0

\* ------------------------------------------------------------------ C19
\* C19: a POST /validate-food that supplies an image is answered, while
\* Redis is unreachable, with a 5xx response without a task id and adds no
\* job; while Redis is reachable it adds a job to the wait list and is
\* answered with the id of that job.
C19_EnqueueFailsOnlyWithoutBroker ==
  [][\A req \in Requests :
       (/\ PostValidateFood(req)
        /\ (req.image.present \/ req.imageUrl # "" \/ req.imageBase64 # <<>>))
         => IF broker = "down"
              THEN /\ response'.kind = "post"
                   /\ response'.code >= 500
                   /\ response'.taskId = 0
                   /\ response'.statusEndpoint = NoEndpoint
                   /\ queue' = queue
              ELSE /\ response'.code = 200
                   /\ response'.taskId = queue'.id
                   /\ queue'.id = queue.id + 1
                   /\ queue'.id \in DOMAIN queue'.jobs
                   /\ queue'.wait = Append(queue.wait, queue'.id)]_vars

\* An enqueue failed on an unreachable Redis after an earlier one succeeded.
C19_Witness ==
  /\ broker = "down"
  /\ response.kind = "post" /\ response.code = 500
  /\ queue.id > 0

\* ------------------------------------------------------------------ C20
\* C20: every answer of GET /task-status to a poll begun after a job
\* finished whose last reply could not be parsed reports the job as failed,
\* with a failure reason that includes the raw text of the reply.
C20_ParseFailureCarriesRawText ==
  \A i \in Ids :
    (log[i] # <<>> /\ Last(log[i]).adapter = "junk")
      => \A r \in seen[i] :
           r.code = 200
             => /\ r.status = "failed"
                /\ r.error # None
                /\ "result.text" \in MessageParts(r.error)

\* ------------------------------------------------------------------ C21
\* C21: a response of GET /health has redis_connected true only if Redis is
\* reachable when the response is made.
C21_HealthReportsBroker ==
  [][Health => (response'.redis_connected => broker = "up")]_vars

\* ------------------------------------------------------------------ C22
\* The base64 data of a data URL: what follows its first comma.
DataOf(text) ==
  LET k == CHOOSE i \in DOMAIN text :
             text[i] = "," /\ \A j \in 1..(i - 1) : text[j] # ","
  IN SubSeq(text, k + 1, Len(text))

\* C22: for a form whose image is an imageBase64 field that begins with
\* "data:" and a media type, the image part sent holds the decoding of the
\* data after the comma only, nothing of the prefix, and has the media type
\* the data URL declares.
C22_DataUrlPrefixStripped ==
  (/\ intake.stage = "sent"
   /\ Base64Only(intake.form)
   /\ startsWithData(intake.form.imageBase64)
   /\ intake.form.imageBase64[2] \notin Skipped)
    => LET text == intake.form.imageBase64
           parts == intake.parts
       IN /\ Len(parts) = 1
          /\ parts[1].data = BytesData(fromBase64(DataOf(text)))
          /\ parts[1].mediaType = text[2]

\* ------------------------------------------------------------------ C23
\* The reply opens with a code fence.
Fenced(text) == "fence" \in SeqToSet(text)

\* C23: the handler returns for a JSON text inside a code fence, with or
\* without white space around the fences, what it returns for the JSON text
\* alone.
C23_FenceIsTransparent ==
  (intake.stage = "handled" /\ intake.body \in JsonValues /\ Fenced(intake.text))
    => intake.value =
         processFoodValidation(1, [kind |-> "text", text |-> <<intake.body>>]).value

\* An object inside ```json fences with white space on every side has been
\* handled and is the result.
C23_Witness ==
  /\ intake.stage = "handled"
  /\ intake.text = <<"ws", "fence", "jsonword", "ws", "objA", "ws", "fence", "ws">>
  /\ intake.value.result = "objA"

\* ------------------------------------------------------------------ C24
\* The JSON values that are not of the Classification Result shape.
Misshapen == {"objPartial", "arr", "num", "null"}

\* C24: for a reply that is JSON but not of the Classification Result
\* shape, bare or fenced, the handler reports a failure and returns no
\* result.
C24_MisshapenReplyIsRejected ==
  (intake.stage = "handled" /\ intake.body \in Misshapen)
    => /\ intake.value.status = "failed"
       /\ intake.value.result = None

\* ------------------------------------------------------------------ C25
\* C25: a response of GET /task-status that reports "completed" for a job
\* whose adapter call succeeded with a well-formed reply carries that
\* reply as its result.
C25_CompletedCarriesResult ==
  (/\ response.kind = "status" /\ response.code = 200
   /\ response.status = "completed"
   /\ log[response.taskId] # <<>>
   /\ WellFormed(Last(log[response.taskId])))
    => response.result = Last(log[response.taskId]).adapter

\* ------------------------------------------------------------------ C26
\* C26: when GET /task-status answers with status "waiting", the
\* queuePosition of the response is the 1-based index of the job in the
\* wait list as it is then.
C26_QueuePositionIsIndex ==
  [][(StatusGetWaiting /\ response'.code = 200 /\ response'.status = "waiting")
       => /\ 1 <= response'.queuePosition
          /\ response'.queuePosition <= Len(queue.wait)
          /\ queue.wait[response'.queuePosition] = response'.taskId]_vars

\* ------------------------------------------------------------------ C27
\* C27: the total of a GET /queue-status response is at most the number of
\* jobs that have been added to the queue, whatever happens between the
\* reads of the request.
C27_TotalCountsEachJobOnce ==
  [][(qs.read = Len(StatusLists) - 1 /\ qs'.read = 0 /\ response'.kind = "stats"
        /\ response'.code = 200)
       => response'.counts.total <= queue.id]_vars

\* ------------------------------------------------------------------ C28
\* The handler runs of job i that have begun: those that have ended and
\* those under way.
RunsBegun(i) ==
  Len(log[i]) + Cardinality({w \in Workers : i \in worker[w]})

\* C28: no job is being processed by two worker processes, the jobs on the
\* active list are those the workers are processing, and of a stored job no
\* more handler runs have begun than attempts: one more than the attempts
\* that failed.
C28_ClaimedByOneWorker ==
  /\ \A w, v \in Workers : w # v => worker[w] \cap worker[v] = {}
  /\ SeqToSet(queue.active) = UNION {worker[w] : w \in Workers}
  /\ Len(queue.active) = Cardinality(SeqToSet(queue.active))
  /\ \A i \in DOMAIN queue.jobs : RunsBegun(i) <= queue.jobs[i].attemptsMade + 1

\* Both worker processes are processing a job.
C28_Witness ==
  /\ worker["w1"] # {} /\ worker["w2"] # {}
  /\ proc["w1"] = "running" /\ proc["w2"] = "running"

\* ------------------------------------------------------------------ C29
\* C29: a worker process never has more jobs under way than the handler
\* slots Bull gives it, and those are no more than QUEUE_CONCURRENCY.
C29_InFlightBounded ==
  /\ concurrency <= QUEUE_CONCURRENCY
  /\ \A w \in Workers :
       /\ Cardinality(worker[w]) <= concurrency
       /\ Cardinality(worker[w]) <= QUEUE_CONCURRENCY

\* A worker has as many jobs under way as it may, while another job waits
\* and the other worker has exited.
C29_Witness ==
  \E w, v \in Workers :
    /\ Cardinality(worker[w]) = concurrency
    /\ proc[w] = "running" /\ proc[v] = "exited"
    /\ queue.wait # <<>>

\* Job i has been taken from the wait list at least once: its hash carries
\* processedOn, or it was numbered and its hash has since been removed.
Started(i) ==
  /\ i \in 1..queue.id
  /\ i \in DOMAIN queue.jobs => queue.jobs[i].processedOn

\* ------------------------------------------------------------------ C30
\* C30: every job is stored with priority 1 and no delay, and jobs begin
\* processing in the order of their enqueueing: when a job has become
\* active, every job enqueued before it has become active already, and the
\* jobs that have not yet begun wait in the order of their ids.
C30_StartsInEnqueueOrder ==
  /\ \A i \in DOMAIN queue.jobs :
       /\ queue.jobs[i].opts.priority = 1
       /\ queue.jobs[i].opts.delay = 0
  /\ \A a, b \in 1..queue.id : (a < b /\ Started(b)) => Started(a)
  /\ \A m, n \in 1..Len(queue.wait) :
       (m < n /\ ~Started(queue.wait[m]) /\ ~Started(queue.wait[n]))
         => queue.wait[m] < queue.wait[n]

\* One worker process is left; the second job enqueued is being processed
\* by it, after the first.
C30_Witness ==
  \E w, v \in Workers :
    /\ proc[w] = "running" /\ proc[v] = "exited"
    /\ 2 \in worker[w]
    /\ Started(1) /\ Started(2)

\* ------------------------------------------------------------------ C31
\* C31: the steps of a graceful shutdown (the signal, the exit) leave the
\* wait list and the hashes of the waiting jobs as they were; a waiting job
\* leaves the wait list only by becoming active at a running worker, with
\* its payload and attempt counter unchanged; and a running worker with a
\* free slot can take a waiting job.
C31_ShutdownKeepsWaiting ==
  [][/\ (proc' # proc) =>
          /\ queue'.wait = queue.wait
          /\ \A i \in SeqToSet(queue.wait) : Job(queue', i) = Job(queue, i)
     /\ \A i \in SeqToSet(queue.wait) :
          \/ /\ i \in SeqToSet(queue'.wait)
             /\ Job(queue', i) = Job(queue, i)
          \/ /\ i \in SeqToSet(queue'.active)
             /\ Job(queue', i).data = Job(queue, i).data
             /\ Job(queue', i).attemptsMade = Job(queue, i).attemptsMade
             /\ \E w \in Workers :
                  /\ proc[w] = "running"
                  /\ i \in worker'[w] \ worker[w]
     /\ \A w \in Workers :
          (queue.wait # <<>> /\ proc[w] = "running" /\ worker[w] = {})
             => ENABLED Claim(w)
    ]_vars

\* A worker has shut down while a job waits, and the other worker, still
\* running, is free to take it.
C31_Witness ==
  \E w, v \in Workers :
    /\ proc[w] = "exited" /\ proc[v] = "running"
    /\ worker[v] = {}
    /\ queue.wait # <<>>

\* ------------------------------------------------------------------ C32
\* C32: every job on the active list is being processed by a worker
\* process that has not exited.
C32_NoOrphanedActive ==
  \A i \in SeqToSet(queue.active) :
    \E w \in Workers : i \in worker[w] /\ proc[w] # "exited"

\* The text holds the line made of label and value.
HasLine(text, label, value) ==
  \E k \in 2..(Len(text) - 2) :
    /\ text[k - 1] = "\n"
    /\ text[k] = label /\ text[k + 1] = value /\ text[k + 2] = "\n"

\* ------------------------------------------------------------------ C33
\* C33: in the user text sent to the external service the line
\* "Food name: <foodName>" is present exactly when the foodName field of the
\* form is not empty, the line "Ingredients: <ingredients>" exactly when
\* the ingredients field is not empty, and the header
\* "Additional information:" exactly when one of the two is not empty.
C33_HintsAppearWhenGiven ==
  intake.stage = "sent" =>
    LET form == intake.form
        text == intake.prompt
    IN /\ text[1] = AnalyzeText
       /\ HasLine(text, "Food name: ", form.foodName) <=> form.foodName # ""
       /\ "Food name: " \in SeqToSet(text) <=> form.foodName # ""
       /\ HasLine(text, "Ingredients: ", form.ingredients) <=> form.ingredients # ""
       /\ "Ingredients: " \in SeqToSet(text) <=> form.ingredients # ""
       /\ "Additional information:" \in SeqToSet(text)
            <=> (form.foodName # "" \/ form.ingredients # "")

\* A form with ingredients and no food name has been sent on.
C33_Witness ==
  /\ intake.stage = "sent"
  /\ intake.form.foodName = "" /\ intake.form.ingredients # ""
  /\ "Additional information:" \in SeqToSet(intake.prompt)

\* A step of one of the read endpoints: a step of GET /task-status or of
\* GET /queue-status, or the sending of a response that is not the one of
\* POST /validate-food.
ReadStep ==
  \/ poll' # poll
  \/ qs' # qs
  \/ response' # response /\ response'.kind \in {"status", "stats", "health"}

\* ------------------------------------------------------------------ C34
\* C34: a step of GET /task-status/:taskId, GET /queue-status or
\* GET /health leaves the queue as it was: the id counter, the lists and
\* every job hash, and what the workers hold.
C34_ReadsLeaveQueue ==
  [][ReadStep => (queue' = queue /\ worker' = worker)]_vars

\* The status of a job has been answered while the queue statistics are
\* being read, and the queue holds two jobs.
C34_Witness ==
  /\ response.kind = "status" /\ response.code = 200
  /\ qs.read > 0
  /\ Len(queue.wait) = 2

\* A step of POST /validate-food that has written to the queue and sent its
\* response.
PostStep ==
  /\ queue' # queue
  /\ worker' = worker
  /\ response'.kind = "post"

\* ------------------------------------------------------------------ C35
\* C35: the id counter of the queue never goes back, and a
\* POST /validate-food that enqueues answers with a taskId above every id
\* given out before, the id of no stored job, under which its own job is
\* stored; its statusEndpoint is "/task-status/" followed by that taskId.
C35_TaskIdsUnique ==
  [][/\ queue'.id >= queue.id
     /\ PostStep =>
          /\ response'.code = 200
          /\ response'.taskId > queue.id
          /\ response'.taskId = queue'.id
          /\ response'.taskId \notin DOMAIN queue.jobs
          /\ response'.taskId \in DOMAIN queue'.jobs
          /\ \A i \in DOMAIN queue.jobs : queue'.jobs[i] = queue.jobs[i]
          /\ response'.statusEndpoint =
                [path |-> "/task-status/", id |-> response'.taskId]
    ]_vars

\* The second enqueue has been answered after the first job had finished
\* and left the queue.
C35_Witness ==
  /\ response.kind = "post" /\ response.code = 200
  /\ response.taskId = 2
  /\ 1 \notin DOMAIN queue.jobs

\* ------------------------------------------------------------------ C36
\* C36: when the form carries an image file, the user content sent to the
\* external service has one image part, whose data are the bytes of the
\* file and whose media type is the type of the file, or image/jpeg when
\* the file has none.
C36_FileBytesRoundTrip ==
  (intake.stage = "sent" /\ intake.form.image.present) =>
    /\ Len(intake.parts) = 1
    /\ intake.parts[1].data = BytesData(intake.form.image.bytes)
    /\ intake.parts[1].mediaType =
         IF intake.form.image.type = "" THEN "image/jpeg"
         ELSE intake.form.image.type


====
